---- MODULE Spec2Model ----
(***************************************************************************)
(* Node bootstrap of the Acuity service (service/src/lib.rs): the          *)
(* partial-components builder new_partial, the full-node orchestrator      *)
(* new_full, the light-node orchestrator new_light and new_chain_ops, as   *)
(* one sequential process whose position is pc.  Every external            *)
(* construction step that the source ends with `?` may fail.               *)
(***************************************************************************)
EXTENDS Integers, Sequences, FiniteSets, TLC

\* ------------------------------------------------------------------ bounds
MaxPeers == 1          \* peer identifiers usable in a sentry list
MaxSentries == 1       \* longest sentry list of Role::Authority
MaxPauseBlock == 1     \* largest pause block given to new_full
MaxDelay == 1          \* largest pause delay given to new_full
MaxHeight == 3         \* largest finalized height the voter reaches
MaxBlocks == 2         \* block identifiers offered to the import pipeline
MaxInbound == 1        \* inbound blocks the network driver hands to the import queue
MaxProbeBlock == 100   \* largest pause block the pause rule is evaluated with
MaxProbeDelay == 10    \* largest pause delay the pause rule is evaluated with
MaxProbeHeight == 112  \* largest finalized height the pause rule is evaluated at
MaxEvents == 3         \* events the network emits on its event stream
MaxPayload == 2        \* distinct DHT payloads
MaxPausePairs == 1     \* --grandpa-pause occurrences on the command line

VARIABLES
    entry,      \* entry point called: "new_full" | "new_light" | "new_chain_ops"
    config,     \* the Configuration the entry point owns
    args,       \* new_full's other parameters
    pc,         \* position of the bootstrap call
    result,     \* "none" while running, then "Ok" | "Err"
    built,      \* handles constructed so far (name -> value)
    log,        \* construction / spawn events, in program order
    tasks,      \* tasks handed to the task manager, in spawn order
    network,    \* the network stack: state and BuildNetworkParams
    grandpa,    \* finality side: link_half owner, voting rule, config, voter state
    chain,      \* storage and authority-set state behind the import pipeline
    probe,      \* inputs and result of one evaluation of the pause rule
    process,    \* the running node: tasks that ended, whether the process exited
    cli,        \* the parsed command line and the orchestrators `run` has called
    dht         \* the network's event stream and what reached the discovery worker

vars == <<entry, config, args, pc, result, built, log, tasks, network, grandpa,
          chain, probe, process, cli, dht>>

\* ------------------------------------------------------------------- roles
Peers == 1..MaxPeers

SeqsUpTo(S, n) == UNION {[1..k -> S] : k \in 0..n}

\* service::Role as the source matches on it (Authority { sentry_nodes },
\* Sentry {..}, Light, and every other variant through `_`).
RoleKinds == {"Full", "Authority", "Sentry", "Light", "Collator"}

Roles ==
    {[kind |-> k, sentry_nodes |-> <<>>] : k \in RoleKinds \ {"Authority"}}
    \cup {[kind |-> "Authority", sentry_nodes |-> s] : s \in SeqsUpTo(Peers, MaxSentries)}

is_authority(r) == r.kind = "Authority"

is_network_authority(r) == r.kind \in {"Authority", "Sentry"}

\* ------------------------------------------------------------------ inputs
None == <<>>

Some(v) == <<v>>

Configurations ==
    [role : Roles,
     offchain_worker_enabled : BOOLEAN,
     disable_grandpa : BOOLEAN,
     force_authoring : BOOLEAN,
     prometheus_config : {"None", "Some"},
     registry : {"default"},
     keystore : {"Path"}]

PauseParams ==
    {None} \cup {Some(<<b, d>>) : b \in 0..MaxPauseBlock, d \in 0..MaxDelay}

FullArgs ==
    [collating_for : {"None", "Some"},
     authority_discovery_enabled : BOOLEAN,
     grandpa_pause : PauseParams,
     test : BOOLEAN]

NoArgs ==
    [collating_for |-> "None", authority_discovery_enabled |-> FALSE,
     grandpa_pause |-> None, test |-> FALSE]

\* ----------------------------------------------------- locals of new_full
\* let is_collator = collating_for.is_some();
is_collator == args.collating_for = "Some"

\* let role = config.role.clone();
role == config.role

\* Variant: the local flag does not exclude collators.
is_authority_local_role == is_authority(role)

\* let is_authority = role.is_authority() && !is_collator;
is_authority_local == is_authority(role) /\ ~is_collator

\* Variant: the disable flag is not consulted.
enable_grandpa_always == TRUE

\* Variant: the voter runs on validators only.
enable_grandpa_validators == ~config.disable_grandpa /\ is_network_authority(config.role)

\* let enable_grandpa = !disable_grandpa;
enable_grandpa == ~config.disable_grandpa

\* The `test` argument new_partial is called with: new_full passes its own
\* `test`, new_chain_ops passes false.
partial_test == IF entry = "new_full" THEN args.test ELSE FALSE

\* --------------------------------------------------------- import pipeline
\* A block-import target is the chain of its stages, outermost first.
ClientImport == <<"client">>

\* grandpa::block_import_with_authority_set_hard_forks(client, ..) wraps the
\* client.
GrandpaBlockImport(inner) == <<"grandpa">> \o inner

\* Variant: the light node builds the full node's justification import.
GrandpaLightBlockImport_full(inner) == <<"grandpa">> \o inner

\* grandpa::light_block_import(client, backend, ..) wraps the client.
GrandpaLightBlockImport(inner) == <<"grandpa_light">> \o inner

\* babe::block_import(config, wrapped_block_import, client) wraps its
\* second argument.
BabeBlockImport(wrapped) == <<"babe">> \o wrapped

\* ------------------------------------------------------------------- state
NoBuilt ==
    [handles |-> {},
     task_manager |-> "none",
     grandpa_block_import |-> None,
     block_import |-> None,
     block_import_built |-> 0,
     block_import_inst |-> 0,
     import_queue |-> None,
     rpc_captures |-> {}]

NoNetwork ==
    [state |-> "none",
     import_queue |-> None,
     on_demand |-> FALSE,
     finality_proof_request_builder |-> FALSE,
     finality_proof_provider |-> FALSE,
     inbound |-> 0]

NoGrandpa ==
    [link_half |-> "none",
     voting_rule |-> None,
     rule_installs |-> 0,
     config_keystore |-> "unset",
     disabled_setup |-> FALSE,
     shared_voter_state |-> 0,
     rpc_read |-> None,
     last_decision |-> None]

NoChain ==
    [storage |-> {},
     authority_set |-> {},
     finalized |-> 0,
     tick |-> FALSE,
     last |-> None]

NoProbe == [pause |-> None, height |-> 0, decision |-> "none"]

\* network.event_stream("authority-discovery") before any event.
NoDht == [emitted |-> <<>>, fed |-> <<>>, stream_ended |-> FALSE, fed_ended |-> FALSE]

\* No command line: the entry point was called directly.
NoCli ==
    [subcommand |-> "None",
     grandpa_pause |-> <<>>,
     authority_discovery_enabled |-> FALSE,
     calls |-> <<>>]

NoProcess == [ended |-> {}, exited |-> FALSE, why |-> "none"]

Entries == {"new_full", "new_light", "new_chain_ops"}

StartPc(e) ==
    CASE e = "new_full" -> "partial_registry"
      [] e = "new_light" -> "light_registry"
      [] e = "new_chain_ops" -> "chain_ops_keystore"

InitWith(e, c, a) ==
    /\ entry = e
    /\ config = c
    /\ args = a
    /\ pc = StartPc(e)
    /\ result = "none"
    /\ built = NoBuilt
    /\ log = <<>>
    /\ tasks = <<>>
    /\ network = NoNetwork
    /\ grandpa = NoGrandpa
    /\ chain = NoChain
    /\ probe = NoProbe
    /\ process = NoProcess
    /\ cli = NoCli
    /\ dht = NoDht

Init ==
    \E e \in Entries, c \in Configurations :
        \E a \in (IF e = "new_full" THEN FullArgs ELSE {NoArgs}) :
            InitWith(e, c, a)

\* ------------------------------------------------------------------ tasks
\* One future handed to the task manager: spawn_essential_handle() gives
\* essential = TRUE, spawn_handle() gives FALSE.  The other fields are what
\* the task was constructed with.
Task(name, essential) ==
    [name |-> name,
     essential |-> essential,
     keystore |-> FALSE,
     block_import |-> <<>>,
     block_import_inst |-> 0,
     sentries |-> <<>>,
     discovery_role |-> "none",
     link |-> FALSE]

Spawned(name) == \E i \in 1..Len(tasks) : tasks[i].name = name

TaskNamed(name) == tasks[CHOOSE i \in 1..Len(tasks) : tasks[i].name = name]

\* The task manager stops every task it holds when it is dropped; a task
\* runs while the manager lives, the process has not exited and the task has
\* not ended.
TaskRunning(t) ==
    /\ built.task_manager \in {"owned", "returned"}
    /\ ~process.exited
    /\ t.name \notin process.ended

Running(name) == Spawned(name) /\ TaskRunning(TaskNamed(name))

\* Variant: the partial build starts the RPC server where the pool worker
\* is registered.
PoolTask_rpc == Task("rpc-server", TRUE)

\* BasicPool::new_full / new_light(.., task_manager.spawn_handle(), ..): the
\* pool registers its background worker through the handle it is given.
PoolTask == Task("txpool-background", FALSE)

\* babe::import_queue(.., &task_manager.spawn_handle(), ..): the queue
\* registers its import worker through the handle it is given.
ImportQueueTask == Task("basic-block-import-worker", FALSE)

\* ------------------------------------------------------------ error return
\* A `?` that yields Err returns from the entry point: every local still
\* owned is dropped.
DropLocals(g) ==
    [g EXCEPT !.link_half = IF @ \in {"partial", "new_full"} THEN "dropped" ELSE @]

\* Variant: the task manager outlives the failed entry point.
ReturnErr_leak ==
    /\ pc' = "done"
    /\ result' = "Err"
    /\ built' = built
    /\ grandpa' = DropLocals(grandpa)

ReturnErr ==
    /\ pc' = "done"
    /\ result' = "Err"
    /\ built' = [built EXCEPT !.task_manager =
                    IF @ = "owned" THEN "dropped" ELSE @]
    /\ grandpa' = DropLocals(grandpa)

\* ---------------------------------------------------------------- cli run
\* match &cli.subcommand: the arms of run().
Subcommands ==
    {"None", "BuildSpec", "CheckBlock", "ExportBlocks", "ExportState",
     "ImportBlocks", "PurgeChain", "Revert", "ValidationWorker", "Benchmark"}

\* The arms that call service::new_chain_ops(&mut config).
ChainOpsSubcommands ==
    {"CheckBlock", "ExportBlocks", "ExportState", "ImportBlocks", "Revert"}

\* cli.run.grandpa_pause: the option takes two values per occurrence.
PauseLists ==
    UNION {[1..(2 * k) -> 0..MaxPauseBlock] : k \in 0..MaxPausePairs}

CommandLines ==
    [subcommand : Subcommands,
     grandpa_pause : PauseLists,
     authority_discovery_enabled : BOOLEAN,
     calls : {<<>>}]

\* Variant: the two values are taken in the other order.
GrandpaPauseArg_swapped(list) ==
    IF list = <<>> THEN None ELSE Some(<<list[2], list[1]>>)

\* let grandpa_pause = if cli.run.grandpa_pause.is_empty() { None }
\*     else { Some((cli.run.grandpa_pause[0], cli.run.grandpa_pause[1])) };
GrandpaPauseArg(list) ==
    IF list = <<>> THEN None ELSE Some(<<list[1], list[2]>>)

\* Variant: every role is sent to the full orchestrator.
RunDispatch_fullOnly(r) == "build_full"

\* match role { Role::Light => service::build_light(config),
\*              _ => service::build_full(config, None, ..) }
RunDispatch(r) == IF r.kind = "Light" THEN "build_light" ELSE "build_full"

\* build_full(config, None, authority_discovery_enabled, grandpa_pause)
\* calls new_full(config, collating_for, .., grandpa_pause, false).
BuildFullArgs ==
    [collating_for |-> "None",
     authority_discovery_enabled |-> cli.authority_discovery_enabled,
     grandpa_pause |-> GrandpaPauseArg(cli.grandpa_pause),
     test |-> FALSE]

\* run(): create the runner, then the arm of the subcommand.  Without a
\* subcommand the node is built by the orchestrator of its role; the chain
\* operations build their components with new_chain_ops; the other arms
\* build no service.
run ==
    /\ pc = "run"
    /\ \E ok \in BOOLEAN :
         IF ~ok \/ cli.subcommand \notin ({"None"} \cup ChainOpsSubcommands)
         THEN /\ pc' = "done"
              /\ result' = IF ok THEN "Ok" ELSE "Err"
              /\ UNCHANGED <<entry, args, cli>>
         ELSE IF cli.subcommand = "None"
         THEN IF RunDispatch(role) = "build_light"
              THEN /\ entry' = "new_light"
                   /\ args' = NoArgs
                   /\ pc' = "light_registry"
                   /\ cli' = [cli EXCEPT !.calls = Append(@, "build_light")]
                   /\ UNCHANGED result
              ELSE /\ entry' = "new_full"
                   /\ args' = BuildFullArgs
                   /\ pc' = "partial_registry"
                   /\ cli' = [cli EXCEPT !.calls = Append(@, "build_full")]
                   /\ UNCHANGED result
         ELSE /\ entry' = "new_chain_ops"
              /\ args' = NoArgs
              /\ pc' = "chain_ops_keystore"
              /\ cli' = [cli EXCEPT !.calls = Append(@, "new_chain_ops")]
              /\ UNCHANGED result
    /\ UNCHANGED <<config, built, log, tasks, network, grandpa, chain, probe,
                   process, dht>>

\* ------------------------------------------------------------ new_chain_ops
\* config.keystore = KeystoreConfig::InMemory; then new_partial(config, false).
\* Variant: the chain operations keep the keystore the node is configured
\* with.
ChainOpsKeystore_asConfigured == config.keystore

\* service::config::KeystoreConfig::InMemory
ChainOpsKeystore == "InMemory"

chain_ops_keystore ==
    /\ pc = "chain_ops_keystore"
    /\ config' = [config EXCEPT !.keystore = ChainOpsKeystore]
    /\ pc' = "partial_registry"
    /\ UNCHANGED <<entry, args, result, built, log, tasks, network, grandpa,
                   chain, probe, process, cli, dht>>

\* Ok((client, backend, import_queue, task_manager)): the rest of the
\* partial components (`..`) is dropped.
chain_ops_return ==
    /\ pc = "chain_ops_return"
    /\ pc' = "done"
    /\ result' = "Ok"
    /\ built' = [built EXCEPT !.task_manager = "returned"]
    /\ grandpa' = DropLocals(grandpa)
    /\ UNCHANGED <<entry, config, args, log, tasks, network, chain, probe, process, cli, dht>>

\* ------------------------------------------------ new_full statement order
\* Variant: the network start trigger is invoked before the finality branch.
FullOrder_startEarly ==
    <<"full_network", "full_offchain", "full_spawn_tasks", "full_babe",
      "full_discovery", "full_grandpa_config", "full_start_network",
      "full_grandpa", "full_return">>

\* Variant: the offchain workers are built after the service tasks.
FullOrder_offchainLate ==
    <<"full_network", "full_spawn_tasks", "full_offchain", "full_babe",
      "full_discovery", "full_grandpa_config", "full_grandpa",
      "full_start_network", "full_return">>

\* Variant: after the start trigger the function waits instead of returning.
FullOrder_noReturn ==
    <<"full_network", "full_offchain", "full_spawn_tasks", "full_babe",
      "full_discovery", "full_grandpa_config", "full_grandpa",
      "full_start_network", "full_wait">>

\* The statements of new_full after new_partial(..)?, in program order.
FullOrder ==
    <<"full_network", "full_offchain", "full_spawn_tasks", "full_babe",
      "full_discovery", "full_grandpa_config", "full_grandpa",
      "full_start_network", "full_return">>

\* The statement that follows `at`.
FullNext(at) ==
    LET i == CHOOSE k \in 1..Len(FullOrder) : FullOrder[k] = at
    IN  FullOrder[i + 1]

\* -------------------------------------------------------------- new_partial
\* if !test { if let Some(..) = config.prometheus_config.as_mut() {
\*     *registry = Registry::new_custom(Some("polkadot"), None)?; } }
\* Variant: the test-mode flag is not consulted.
RewritesRegistry_always(test) == config.prometheus_config = "Some"

RewritesRegistry(test) == ~test /\ config.prometheus_config = "Some"

partial_registry ==
    /\ pc = "partial_registry"
    /\ IF RewritesRegistry(partial_test)
       THEN \E ok \in BOOLEAN :
              IF ok
              THEN /\ config' = [config EXCEPT !.registry = "polkadot"]
                   /\ log' = Append(log, "registry_rewrite")
                   /\ pc' = "partial_parts"
                   /\ UNCHANGED <<result, built, grandpa>>
              ELSE /\ ReturnErr
                   /\ UNCHANGED <<config, log>>
       ELSE /\ pc' = "partial_parts"
            /\ UNCHANGED <<config, log, result, built, grandpa>>
    /\ UNCHANGED <<entry, args, tasks, network, chain, probe, process, cli, dht>>

\* inherent_data_providers; service::new_full_parts(&config)?
partial_parts ==
    /\ pc = "partial_parts"
    /\ \E ok \in BOOLEAN :
         IF ok
         THEN /\ built' = [built EXCEPT
                    !.handles = @ \cup {"inherent_data_providers", "client",
                                        "backend", "keystore"},
                    !.task_manager = "owned"]
              /\ log' = Append(log, "new_full_parts")
              /\ pc' = "partial_pool"
              /\ UNCHANGED <<result, grandpa>>
         ELSE /\ ReturnErr
              /\ UNCHANGED log
    /\ UNCHANGED <<entry, config, args, tasks, network, chain, probe, process, cli, dht>>

\* LongestChain::new(backend); BasicPool::new_full(.., client)
partial_pool ==
    /\ pc = "partial_pool"
    /\ built' = [built EXCEPT !.handles = @ \cup {"select_chain", "transaction_pool"}]
    /\ tasks' = Append(tasks, PoolTask)
    /\ log' = log \o <<"select_chain", "transaction_pool">>
    /\ pc' = "partial_grandpa_import"
    /\ UNCHANGED <<entry, config, args, result, network, grandpa, chain, probe, process, cli, dht>>

\* grandpa::block_import_with_authority_set_hard_forks(client, ..)?;
\* justification_import = grandpa_block_import.clone()
partial_grandpa_import ==
    /\ pc = "partial_grandpa_import"
    /\ \E ok \in BOOLEAN :
         IF ok
         THEN /\ built' = [built EXCEPT
                    !.grandpa_block_import = Some(GrandpaBlockImport(ClientImport)),
                    !.handles = @ \cup {"justification_import"}]
              /\ grandpa' = [grandpa EXCEPT !.link_half = "partial"]
              /\ log' = Append(log, "grandpa_block_import")
              /\ pc' = "partial_babe_import"
              /\ UNCHANGED result
         ELSE /\ ReturnErr
              /\ UNCHANGED log
    /\ UNCHANGED <<entry, config, args, tasks, network, chain, probe, process, cli, dht>>

\* Variant: the two wrappers are applied in the other order, the
\* justification stage outside the seal stage.
ComposeBlockImport_grandpaOuter(grandpa_block_import) ==
    <<Head(grandpa_block_import)>> \o BabeBlockImport(Tail(grandpa_block_import))

\* babe::block_import(babe::Config::get_or_compute(&*client)?,
\*                    grandpa_block_import, client)?
ComposeBlockImport(grandpa_block_import) == BabeBlockImport(grandpa_block_import)

partial_babe_import ==
    /\ pc = "partial_babe_import"
    /\ \E ok \in BOOLEAN :
         IF ok
         THEN /\ built' = [built EXCEPT
                    !.block_import = Some(ComposeBlockImport(built.grandpa_block_import[1])),
                    !.block_import_built = @ + 1,
                    !.block_import_inst = built.block_import_built + 1,
                    !.handles = @ \cup {"babe_link"}]
              /\ log' = Append(log, "babe_block_import")
              /\ pc' = "partial_import_queue"
              /\ UNCHANGED <<result, grandpa>>
         ELSE /\ ReturnErr
              /\ UNCHANGED log
    /\ UNCHANGED <<entry, config, args, tasks, network, chain, probe, process, cli, dht>>

\* Variant: the finality import is registered as the finality-proof channel
\* and no justification channel is given.
FullImportQueue_proofChannel(block_import, justification_import) ==
    [block_import |-> block_import,
     inst |-> built.block_import_inst,
     justification_import |-> None,
     finality_proof_import |-> Some(justification_import),
     can_author_with |-> "CanAuthorWithNativeVersion"]

\* babe::import_queue(babe_link, block_import.clone(),
\*     Some(Box::new(justification_import)), None, .., CanAuthorWithNativeVersion)?
FullImportQueue(block_import, justification_import) ==
    [block_import |-> block_import,
     inst |-> built.block_import_inst,
     justification_import |-> Some(justification_import),
     finality_proof_import |-> None,
     can_author_with |-> "CanAuthorWithNativeVersion"]

partial_import_queue ==
    /\ pc = "partial_import_queue"
    /\ \E ok \in BOOLEAN :
         IF ok
         THEN /\ built' = [built EXCEPT
                    !.import_queue = Some(FullImportQueue(built.block_import[1],
                                                          built.grandpa_block_import[1]))]
              /\ tasks' = Append(tasks, ImportQueueTask)
              /\ log' = Append(log, "import_queue")
              /\ pc' = "partial_rpc"
              /\ UNCHANGED <<result, grandpa>>
         ELSE /\ ReturnErr
              /\ UNCHANGED <<tasks, log>>
    /\ UNCHANGED <<entry, config, args, network, chain, probe, process, cli, dht>>

\* justification_stream, shared_authority_set, shared_voter_state,
\* import_setup, rpc_setup, rpc_extensions_builder; Ok(PartialComponents{..})
RpcCaptures ==
    {"client", "keystore", "transaction_pool", "select_chain", "babe_config",
     "shared_epoch_changes", "shared_voter_state", "shared_authority_set",
     "justification_stream"}

\* Variant: the shared voter state starts out with one recorded round.
SharedVoterState_preset == Cardinality({"round"})

\* grandpa::SharedVoterState::empty()
SharedVoterState_empty == 0

partial_rpc ==
    /\ pc = "partial_rpc"
    /\ grandpa' = [grandpa EXCEPT !.shared_voter_state = SharedVoterState_empty]
    /\ built' = [built EXCEPT
          !.handles = @ \cup {"justification_stream", "shared_authority_set",
                              "shared_voter_state", "rpc_extensions_builder"},
          !.rpc_captures = RpcCaptures]
    /\ log' = Append(log, "rpc_extensions_builder")
    /\ pc' = IF entry = "new_chain_ops" THEN "chain_ops_return" ELSE FullOrder[1]
    /\ UNCHANGED <<entry, config, args, result, tasks, network, chain, probe, process, cli, dht>>

\* ----------------------------------------------------------------- new_full
\* Variant: the network is started as soon as it is built.
FullNetworkParams_started(import_queue) ==
    [state |-> "started",
     import_queue |-> import_queue,
     on_demand |-> FALSE,
     finality_proof_request_builder |-> FALSE,
     finality_proof_provider |-> TRUE,
     inbound |-> 0]

\* GrandpaFinalityProofProvider::new_for_service(..);
\* service::build_network(BuildNetworkParams { import_queue, on_demand: None,
\*     finality_proof_request_builder: None,
\*     finality_proof_provider: Some(..), .. })?
FullNetworkParams(import_queue) ==
    [state |-> "built",
     import_queue |-> import_queue,
     on_demand |-> FALSE,
     finality_proof_request_builder |-> FALSE,
     finality_proof_provider |-> TRUE,
     inbound |-> 0]

full_network ==
    /\ pc = "full_network"
    /\ \E ok \in BOOLEAN :
         IF ok
         THEN /\ network' = FullNetworkParams(built.import_queue)
              /\ built' = [built EXCEPT !.import_queue = None,
                                        !.handles = @ \cup {"finality_proof_provider"}]
              /\ log' = Append(log, "build_network")
              /\ pc' = FullNext("full_network")
              /\ UNCHANGED <<result, grandpa>>
         ELSE /\ ReturnErr
              /\ UNCHANGED <<network, log>>
    /\ UNCHANGED <<entry, config, args, tasks, chain, probe, process, cli, dht>>

\* if config.offchain_worker.enabled { service::build_offchain_workers(..) }
full_offchain ==
    /\ pc = "full_offchain"
    /\ IF config.offchain_worker_enabled
       THEN /\ tasks' = Append(tasks, Task("offchain-worker", FALSE))
            /\ log' = Append(log, "offchain-worker")
       ELSE UNCHANGED <<tasks, log>>
    /\ pc' = FullNext("full_offchain")
    /\ UNCHANGED <<entry, config, args, result, built, network, grandpa, chain, probe, process, cli, dht>>

\* service::spawn_tasks(SpawnTasksParams { config, keystore, network,
\*     rpc_extensions_builder, task_manager: &mut task_manager, .. })?
full_spawn_tasks ==
    /\ pc = "full_spawn_tasks"
    /\ \E ok \in BOOLEAN :
         IF ok
         THEN /\ tasks' = Append(tasks, Task("rpc-server", TRUE))
              /\ log' = Append(log, "rpc-server")
              /\ pc' = FullNext("full_spawn_tasks")
              /\ UNCHANGED <<result, built, grandpa>>
         ELSE /\ ReturnErr
              /\ UNCHANGED <<tasks, log>>
    /\ UNCHANGED <<entry, config, args, network, chain, probe, process, cli, dht>>

\* Variant: the guard reads the local `is_authority` (which excludes
\* collators) instead of role.is_authority().
SpawnsBabe_local == is_authority_local

\* if role.is_authority() { .. }
SpawnsBabe == is_authority(role)

\* Variant: the production task is given a pipeline of its own, built a
\* second time from the same stages, instead of the one in import_setup.
BabeTask_rebuilt ==
    [Task("babe", TRUE) EXCEPT
        !.keystore = TRUE,
        !.block_import = ComposeBlockImport(GrandpaBlockImport(ClientImport)),
        !.block_import_inst = built.block_import_built + 1]

\* Variant: the production task imports through the finality import alone,
\* without the seal stage around it.
BabeTask_unsealed ==
    [Task("babe", TRUE) EXCEPT !.keystore = TRUE,
                               !.block_import = built.grandpa_block_import[1],
                               !.block_import_inst = built.block_import_inst]

\* Variant: the production task is handed over through spawn_handle()
\* instead of spawn_essential_handle().
BabeTask_nonEssential ==
    [Task("babe", FALSE) EXCEPT !.keystore = TRUE,
                                !.block_import = built.block_import[1],
                                !.block_import_inst = built.block_import_inst]

\* let (block_import, link_half, babe_link) = import_setup;
\* babe::BabeParams { keystore, select_chain, block_import,
\*     sync_oracle: network, force_authoring, .. };
\* let babe = babe::start_babe(babe_config)?;
\* task_manager.spawn_essential_handle().spawn_blocking("babe", babe);
BabeTask ==
    [Task("babe", TRUE) EXCEPT !.keystore = TRUE,
                               !.block_import = built.block_import[1],
                               !.block_import_inst = built.block_import_inst]

full_babe ==
    /\ pc = "full_babe"
    /\ IF SpawnsBabe
       THEN \E ok \in BOOLEAN :
              IF ok
              THEN /\ tasks' = Append(tasks, BabeTask)
                   /\ log' = Append(log, "babe")
                   /\ grandpa' = [grandpa EXCEPT !.link_half = "new_full"]
                   /\ pc' = FullNext("full_babe")
                   /\ UNCHANGED <<result, built>>
              ELSE /\ ReturnErr
                   /\ UNCHANGED <<tasks, log>>
       ELSE /\ grandpa' = [grandpa EXCEPT !.link_half = "new_full"]
            /\ pc' = FullNext("full_babe")
            /\ UNCHANGED <<tasks, log, result, built>>
    /\ UNCHANGED <<entry, config, args, network, chain, probe, process, cli, dht>>

\* Variant: the outer matches!(role, Authority | Sentry) test is missing.
SpawnsDiscovery_anyRole == args.authority_discovery_enabled

\* Variant: the inner authority_discovery_enabled test is missing.
SpawnsDiscovery_noFlag == role.kind \in {"Authority", "Sentry"}

\* if matches!(role, Role::Authority{..} | Role::Sentry{..}) {
\*     if authority_discovery_enabled { .. } }
SpawnsDiscovery ==
    /\ role.kind \in {"Authority", "Sentry"}
    /\ args.authority_discovery_enabled

\* let (sentries, authority_discovery_role) = match role { .. };
DiscoveryRole(r) ==
    CASE r.kind = "Authority" ->
           [sentries |-> r.sentry_nodes, discovery_role |-> "Authority", keystore |-> TRUE]
      [] r.kind = "Sentry" ->
           [sentries |-> <<>>, discovery_role |-> "Sentry", keystore |-> FALSE]
      [] OTHER ->
           [sentries |-> <<>>, discovery_role |-> "unreachable", keystore |-> FALSE]

\* task_manager.spawn_handle().spawn("authority-discovery-worker", ..)
DiscoveryTask ==
    LET d == DiscoveryRole(role)
    IN  [Task("authority-discovery-worker", FALSE) EXCEPT
            !.keystore = d.keystore,
            !.sentries = d.sentries,
            !.discovery_role = d.discovery_role]

full_discovery ==
    /\ pc = "full_discovery"
    /\ IF SpawnsDiscovery
       THEN /\ tasks' = Append(tasks, DiscoveryTask)
            /\ log' = Append(log, "authority-discovery-worker")
       ELSE UNCHANGED <<tasks, log>>
    /\ pc' = FullNext("full_discovery")
    /\ UNCHANGED <<entry, config, args, result, built, network, grandpa, chain, probe, process, cli, dht>>

\* Variant: the keystore is handed to the voter whatever the role.
GrandpaKeystore_always == "Some"

\* let keystore = if is_authority { Some(keystore) } else { None };
GrandpaKeystore == IF is_authority_local THEN "Some" ELSE "None"

\* let config = grandpa::Config { keystore, is_authority: .., .. };
full_grandpa_config ==
    /\ pc = "full_grandpa_config"
    /\ grandpa' = [grandpa EXCEPT !.config_keystore = GrandpaKeystore]
    /\ pc' = FullNext("full_grandpa_config")
    /\ UNCHANGED <<entry, config, args, result, built, log, tasks, network, chain, probe, process, cli, dht>>

\* crate::grandpa_support::PauseAfterBlockFor(block, delay)
PauseAfterBlockFor(block, delay) == [block |-> block, delay |-> delay]

\* Variant: the two fields of the pause pair are passed in the other order.
VotingRule_swapped(grandpa_pause) ==
    IF grandpa_pause = None
    THEN <<>>
    ELSE <<PauseAfterBlockFor(grandpa_pause[1][2], grandpa_pause[1][1])>>

\* Variant: grandpa_pause is ignored and the default rules are built.
VotingRule_ignored(grandpa_pause) == <<>>

\* let voting_rule = match grandpa_pause {
\*     Some((block, delay)) => VotingRulesBuilder::default()
\*         .add(PauseAfterBlockFor(block, delay)).build(),
\*     None => VotingRulesBuilder::default().build() };
\* The value is the list of rules added to the default builder.
VotingRule(grandpa_pause) ==
    IF grandpa_pause = None
    THEN <<>>
    ELSE <<PauseAfterBlockFor(grandpa_pause[1][1], grandpa_pause[1][2])>>

\* grandpa::GrandpaParams { config, link: link_half, network, voting_rule,
\*     shared_voter_state, .. };
\* task_manager.spawn_essential_handle().spawn_blocking("grandpa-voter",
\*     grandpa::run_grandpa_voter(grandpa_config)?);
VoterTask ==
    [Task("grandpa-voter", TRUE) EXCEPT !.keystore = (grandpa.config_keystore = "Some"),
                                        !.link = TRUE]

\* if enable_grandpa { .. } else { grandpa::setup_disabled_grandpa(client,
\*     &inherent_data_providers, network)?; }
full_grandpa ==
    /\ pc = "full_grandpa"
    /\ \E ok \in BOOLEAN :
         IF enable_grandpa
         THEN IF ok
              THEN /\ tasks' = Append(tasks, VoterTask)
                   /\ log' = Append(log, "grandpa-voter")
                   /\ grandpa' = [grandpa EXCEPT
                         !.link_half = "voter",
                         !.voting_rule = Some(VotingRule(args.grandpa_pause)),
                         !.rule_installs = @ + 1]
                   /\ pc' = FullNext("full_grandpa")
                   /\ UNCHANGED <<result, built>>
              ELSE \* link_half was moved into grandpa_config, which is dropped
                   /\ pc' = "done"
                   /\ result' = "Err"
                   /\ built' = [built EXCEPT !.task_manager = "dropped"]
                   /\ grandpa' = [grandpa EXCEPT !.link_half = "dropped"]
                   /\ UNCHANGED <<tasks, log>>
         ELSE IF ok
              THEN /\ grandpa' = [grandpa EXCEPT !.disabled_setup = TRUE]
                   /\ log' = Append(log, "setup_disabled_grandpa")
                   /\ pc' = FullNext("full_grandpa")
                   /\ UNCHANGED <<tasks, result, built>>
              ELSE /\ ReturnErr
                   /\ UNCHANGED <<tasks, log>>
    /\ UNCHANGED <<entry, config, args, network, chain, probe, process, cli, dht>>

\* network_starter.start_network();
start_network ==
    /\ network' = [network EXCEPT !.state = "started"]
    /\ log' = Append(log, "start_network")

full_start_network ==
    /\ pc = "full_start_network"
    /\ start_network
    /\ pc' = FullNext("full_start_network")
    /\ UNCHANGED <<entry, config, args, result, built, tasks, grandpa, chain, probe, process, cli, dht>>

\* Ok((task_manager, client, FullNodeHandles, network, rpc_handlers)):
\* locals not returned or moved away are dropped.
full_return ==
    /\ pc = "full_return"
    /\ pc' = "done"
    /\ result' = "Ok"
    /\ built' = [built EXCEPT !.task_manager = "returned"]
    /\ grandpa' = DropLocals(grandpa)
    /\ UNCHANGED <<entry, config, args, log, tasks, network, chain, probe, process, cli, dht>>

\* ---------------------------------------------------------------- new_light
\* if let Some(..) = config.prometheus_config.as_mut() {
\*     *registry = Registry::new_custom(Some("polkadot"), None)?; }
light_registry ==
    /\ pc = "light_registry"
    /\ IF config.prometheus_config = "Some"
       THEN \E ok \in BOOLEAN :
              IF ok
              THEN /\ config' = [config EXCEPT !.registry = "polkadot"]
                   /\ log' = Append(log, "registry_rewrite")
                   /\ pc' = "light_parts"
                   /\ UNCHANGED <<result, built, grandpa>>
              ELSE /\ ReturnErr
                   /\ UNCHANGED <<config, log>>
       ELSE /\ pc' = "light_parts"
            /\ UNCHANGED <<config, log, result, built, grandpa>>
    /\ UNCHANGED <<entry, args, tasks, network, chain, probe, process, cli, dht>>

\* service::new_light_parts(&config)?; LongestChain::new(backend);
\* BasicPool::new_light(.., on_demand)
light_parts ==
    /\ pc = "light_parts"
    /\ \E ok \in BOOLEAN :
         IF ok
         THEN /\ built' = [built EXCEPT
                    !.handles = @ \cup {"client", "backend", "keystore", "on_demand",
                                        "select_chain", "transaction_pool"},
                    !.task_manager = "owned"]
              /\ tasks' = Append(tasks, PoolTask)
              /\ log' = log \o <<"new_light_parts", "select_chain", "transaction_pool">>
              /\ pc' = "light_grandpa_import"
              /\ UNCHANGED <<result, grandpa>>
         ELSE /\ ReturnErr
              /\ UNCHANGED <<tasks, log>>
    /\ UNCHANGED <<entry, config, args, network, chain, probe, process, cli, dht>>

\* grandpa::light_block_import(client, backend, ..)?;
\* finality_proof_import = grandpa_block_import.clone();
\* finality_proof_request_builder =
\*     finality_proof_import.create_finality_proof_request_builder();
light_grandpa_import ==
    /\ pc = "light_grandpa_import"
    /\ \E ok \in BOOLEAN :
         IF ok
         THEN /\ built' = [built EXCEPT
                    !.grandpa_block_import = Some(GrandpaLightBlockImport(ClientImport)),
                    !.handles = @ \cup {"finality_proof_import",
                                        "finality_proof_request_builder"}]
              /\ log' = Append(log, "grandpa_block_import")
              /\ pc' = "light_babe_import"
              /\ UNCHANGED <<result, grandpa>>
         ELSE /\ ReturnErr
              /\ UNCHANGED log
    /\ UNCHANGED <<entry, config, args, tasks, network, chain, probe, process, cli, dht>>

\* babe::block_import(babe::Config::get_or_compute(&*client)?,
\*                    grandpa_block_import, client)?
light_babe_import ==
    /\ pc = "light_babe_import"
    /\ \E ok \in BOOLEAN :
         IF ok
         THEN /\ built' = [built EXCEPT
                    !.block_import = Some(ComposeBlockImport(built.grandpa_block_import[1])),
                    !.block_import_built = @ + 1,
                    !.block_import_inst = built.block_import_built + 1,
                    !.handles = @ \cup {"babe_link", "inherent_data_providers"}]
              /\ log' = Append(log, "babe_block_import")
              /\ pc' = "light_import_queue"
              /\ UNCHANGED <<result, grandpa>>
         ELSE /\ ReturnErr
              /\ UNCHANGED log
    /\ UNCHANGED <<entry, config, args, tasks, network, chain, probe, process, cli, dht>>

\* Variant: the light queue is set up like the full one, the finality import
\* as justification channel and the native-version authorship check.
LightImportQueue_asFull(block_import, finality_proof_import) ==
    [block_import |-> block_import,
     inst |-> built.block_import_inst,
     justification_import |-> Some(finality_proof_import),
     finality_proof_import |-> None,
     can_author_with |-> "CanAuthorWithNativeVersion"]

\* babe::import_queue(babe_link, babe_block_import, None,
\*     Some(Box::new(finality_proof_import)), .., NeverCanAuthor)?
LightImportQueue(block_import, finality_proof_import) ==
    [block_import |-> block_import,
     inst |-> built.block_import_inst,
     justification_import |-> None,
     finality_proof_import |-> Some(finality_proof_import),
     can_author_with |-> "NeverCanAuthor"]

light_import_queue ==
    /\ pc = "light_import_queue"
    /\ \E ok \in BOOLEAN :
         IF ok
         THEN /\ built' = [built EXCEPT
                    !.import_queue = Some(LightImportQueue(built.block_import[1],
                                                           built.grandpa_block_import[1])),
                    !.block_import = None]
              /\ tasks' = Append(tasks, ImportQueueTask)
              /\ log' = Append(log, "import_queue")
              /\ pc' = "light_network"
              /\ UNCHANGED <<result, grandpa>>
         ELSE /\ ReturnErr
              /\ UNCHANGED <<tasks, log>>
    /\ UNCHANGED <<entry, config, args, network, chain, probe, process, cli, dht>>

\* Variant: the light network is built without a finality-proof provider.
LightNetworkParams_noProvider(import_queue) ==
    [state |-> "built",
     import_queue |-> import_queue,
     on_demand |-> TRUE,
     finality_proof_request_builder |-> TRUE,
     finality_proof_provider |-> FALSE,
     inbound |-> 0]

\* GrandpaFinalityProofProvider::new_for_service(..);
\* service::build_network(BuildNetworkParams { import_queue,
\*     on_demand: Some(on_demand),
\*     finality_proof_request_builder: Some(finality_proof_request_builder),
\*     finality_proof_provider: Some(finality_proof_provider), .. })?
LightNetworkParams(import_queue) ==
    [state |-> "built",
     import_queue |-> import_queue,
     on_demand |-> TRUE,
     finality_proof_request_builder |-> TRUE,
     finality_proof_provider |-> TRUE,
     inbound |-> 0]

light_network ==
    /\ pc = "light_network"
    /\ \E ok \in BOOLEAN :
         IF ok
         THEN /\ network' = LightNetworkParams(built.import_queue)
              /\ built' = [built EXCEPT !.import_queue = None,
                                        !.handles = @ \cup {"finality_proof_provider"}]
              /\ log' = Append(log, "build_network")
              /\ pc' = "light_offchain"
              /\ UNCHANGED <<result, grandpa>>
         ELSE /\ ReturnErr
              /\ UNCHANGED <<network, log>>
    /\ UNCHANGED <<entry, config, args, tasks, chain, probe, process, cli, dht>>

\* if config.offchain_worker.enabled { service::build_offchain_workers(..) }
light_offchain ==
    /\ pc = "light_offchain"
    /\ IF config.offchain_worker_enabled
       THEN /\ tasks' = Append(tasks, Task("offchain-worker", FALSE))
            /\ log' = Append(log, "offchain-worker")
       ELSE UNCHANGED <<tasks, log>>
    /\ pc' = "light_spawn_tasks"
    /\ UNCHANGED <<entry, config, args, result, built, network, grandpa, chain, probe, process, cli, dht>>

\* polkadot_rpc::create_light(light_deps);
\* service::spawn_tasks(SpawnTasksParams { rpc_extensions_builder:
\*     NoopRpcExtensionBuilder(rpc_extensions), config, keystore, .. })?
light_spawn_tasks ==
    /\ pc = "light_spawn_tasks"
    /\ \E ok \in BOOLEAN :
         IF ok
         THEN /\ tasks' = Append(tasks, Task("rpc-server", TRUE))
              /\ log' = Append(log, "rpc-server")
              /\ pc' = "light_start_network"
              /\ UNCHANGED <<result, built, grandpa>>
         ELSE /\ ReturnErr
              /\ UNCHANGED <<tasks, log>>
    /\ UNCHANGED <<entry, config, args, network, chain, probe, process, cli, dht>>

light_start_network ==
    /\ pc = "light_start_network"
    /\ start_network
    /\ pc' = "light_return"
    /\ UNCHANGED <<entry, config, args, result, built, tasks, grandpa, chain, probe, process, cli, dht>>

\* Ok((task_manager, rpc_handlers))
light_return ==
    /\ pc = "light_return"
    /\ pc' = "done"
    /\ result' = "Ok"
    /\ built' = [built EXCEPT !.task_manager = "returned"]
    /\ grandpa' = DropLocals(grandpa)
    /\ UNCHANGED <<entry, config, args, log, tasks, network, chain, probe, process, cli, dht>>

\* ----------------------------------------------------------- network driver
\* The driver built by build_network processes peer traffic only once the
\* deferred start trigger has been invoked; each inbound block is handed to
\* the import queue the network was built with.
network_inbound ==
    /\ network.state = "started"
    /\ ~process.exited
    /\ network.inbound < MaxInbound
    /\ network' = [network EXCEPT !.inbound = @ + 1]
    /\ UNCHANGED <<entry, config, args, pc, result, built, log, tasks, grandpa,
                   chain, probe, process, cli, dht>>

\* ----------------------------------------------------------- event stream
\* The events of the network's generic stream: a DHT event wraps a DHT
\* payload, the notification events are the other kinds.
EventKinds ==
    {"Dht", "NotificationStreamOpened", "NotificationStreamClosed",
     "NotificationsReceived"}

Events ==
    {[kind |-> "Dht", payload |-> p] : p \in 1..MaxPayload}
    \cup {[kind |-> k, payload |-> 0] : k \in EventKinds \ {"Dht"}}

\* Variant: every event is passed on.
DhtFilter_all(e) == Some(e.payload)

\* |e| async move { match e { Event::Dht(e) => Some(e), _ => None } }
DhtFilter(e) == IF e.kind = "Dht" THEN Some(e.payload) ELSE None

\* filter_map: an item is yielded for each event the closure maps to Some.
network_event ==
    /\ network.state = "started"
    /\ Running("authority-discovery-worker")
    /\ ~dht.stream_ended
    /\ Len(dht.emitted) < MaxEvents
    /\ \E e \in Events :
          dht' = [dht EXCEPT
                    !.emitted = Append(@, e),
                    !.fed = IF DhtFilter(e) = None THEN @ ELSE Append(@, DhtFilter(e)[1])]
    /\ UNCHANGED <<entry, config, args, pc, result, built, log, tasks, network,
                   grandpa, chain, probe, process, cli>>

\* The underlying stream ends, and with it the filtered one.
network_event_stream_ends ==
    /\ network.state = "started"
    /\ Running("authority-discovery-worker")
    /\ ~dht.stream_ended
    /\ dht' = [dht EXCEPT !.stream_ended = TRUE, !.fed_ended = TRUE]
    /\ UNCHANGED <<entry, config, args, pc, result, built, log, tasks, network,
                   grandpa, chain, probe, process, cli>>

\* ------------------------------------------------------------ task manager
\* Why a task's future completed.
EndReasons == {"failed", "finished", "stream_ended"}

\* A running task of the started node ends.  The end of a task spawned
\* through spawn_essential_handle() makes the task manager's future resolve
\* and the process exit; the end of any other task is only recorded.  Nothing
\* spawns a task again.
task_ends ==
    /\ pc = "done"
    /\ result = "Ok"
    /\ network.state = "started"
    /\ \E i \in 1..Len(tasks), why \in EndReasons :
          /\ TaskRunning(tasks[i])
          /\ process' = [ended |-> process.ended \cup {tasks[i].name},
                         exited |-> process.exited \/ tasks[i].essential,
                         why |-> why]
    /\ UNCHANGED <<entry, config, args, pc, result, built, log, tasks, network,
                   grandpa, chain, probe, cli, dht>>

\* ------------------------------------------------------- voting-pause rule
\* The decision of one PauseAfterBlockFor(block, delay) rule at a finalized
\* height: Pause from `block` on, for `delay` heights.
PauseDecision(rule, finalized_height) ==
    IF finalized_height < rule.block
    THEN "Vote"
    ELSE IF finalized_height - rule.block < rule.delay
         THEN "Pause"
         ELSE "Vote"

\* The voter may vote unless one of the rules added to the builder pauses.
decide(rules, finalized_height) ==
    IF \E i \in 1..Len(rules) : PauseDecision(rules[i], finalized_height) = "Pause"
    THEN "Pause"
    ELSE "Vote"

\* One evaluation of the rule new_full builds from grandpa_pause.
probe_decide ==
    /\ pc = "probe"
    /\ probe.decision = "none"
    /\ probe' = [probe EXCEPT !.decision = decide(VotingRule(probe.pause), probe.height)]
    /\ UNCHANGED <<entry, config, args, pc, result, built, log, tasks, network,
                   grandpa, chain, process, cli, dht>>

\* ------------------------------------------------------ import stage chain
\* A block offered to the pipeline: its identifier, whether its production
\* seal verifies, and whether a finality justification is attached.
Blocks == [id : 1..MaxBlocks, seal_valid : BOOLEAN, justification : BOOLEAN]

\* One import attempt through a stage chain, outermost stage first.
\*   babe:          verifies the seal; an invalid seal ends the attempt,
\*                  a valid one delegates to the wrapped import.
\*   grandpa:       feeds an attached justification into the authority-set
\*                  tracking, then delegates to the wrapped import.
\*   grandpa_light: passive observer, delegates to the wrapped import.
\*   client:        applies the block and persists it.
RECURSIVE AttemptImport(_, _, _)
AttemptImport(stages, block, st) ==
    IF stages = <<>>
    THEN st
    ELSE LET stage == Head(stages)
             entered == [st EXCEPT !.visited = Append(@, stage)]
         IN  CASE stage = "babe" ->
                    IF block.seal_valid
                    THEN AttemptImport(Tail(stages), block, entered)
                    ELSE [entered EXCEPT !.outcome = "rejected"]
               [] stage = "grandpa" ->
                    AttemptImport(Tail(stages), block,
                        IF block.justification
                        THEN [entered EXCEPT !.authority_set = @ \cup {block.id}]
                        ELSE entered)
               [] stage = "grandpa_light" ->
                    AttemptImport(Tail(stages), block, entered)
               [] stage = "client" ->
                    [entered EXCEPT !.storage = @ \cup {block.id},
                                    !.outcome = "imported"]

\* The attempt applied to the chain state; `last` records what was attempted.
ImportThrough(path, target, block) ==
    LET r == AttemptImport(target, block,
                 [storage |-> chain.storage,
                  authority_set |-> chain.authority_set,
                  visited |-> <<>>,
                  outcome |-> "none"])
    IN  chain' = [chain EXCEPT
            !.storage = r.storage,
            !.authority_set = r.authority_set,
            !.tick = ~@,
            !.last = Some([path |-> path, block |-> block,
                           outcome |-> r.outcome, visited |-> r.visited])]

\* The import queue imports a block received from the network through the
\* block import it was constructed with.
import_queue_block ==
    /\ network.state = "started"
    /\ Running("basic-block-import-worker")
    /\ \E b \in Blocks :
          ImportThrough("import_queue", network.import_queue[1].block_import, b)
    /\ UNCHANGED <<entry, config, args, pc, result, built, log, tasks, network,
                   grandpa, probe, process, cli, dht>>

\* The production task imports a block it authored through the block import
\* of its BabeParams.
production_block ==
    /\ Running("babe")
    /\ \E b \in Blocks :
          ImportThrough("production", TaskNamed("babe").block_import, b)
    /\ UNCHANGED <<entry, config, args, pc, result, built, log, tasks, network,
                   grandpa, probe, process, cli, dht>>

\* ------------------------------------------------------------ voter task
\* One round of the running voter task: it consults the installed voting
\* rule at the current finalized height before casting a vote; a vote
\* finalizes the next height and is recorded in the shared voter state.
voter_round ==
    /\ Running("grandpa-voter")
    /\ chain.finalized < MaxHeight
    /\ LET d == decide(grandpa.voting_rule[1], chain.finalized)
       IN  /\ grandpa' = [grandpa EXCEPT
                 !.last_decision = Some(<<chain.finalized, d>>),
                 !.shared_voter_state = IF d = "Vote" THEN @ + 1 ELSE @]
           /\ chain' = [chain EXCEPT
                 !.finalized = IF d = "Vote" THEN @ + 1 ELSE @]
    /\ UNCHANGED <<entry, config, args, pc, result, built, log, tasks, network, probe, process, cli, dht>>

\* An RPC request for the voter's round state is answered from the shared
\* voter state the extension builder captured; the handler only reads it.
rpc_round_state ==
    /\ Running("rpc-server")
    /\ "shared_voter_state" \in built.rpc_captures
    /\ grandpa.rpc_read # Some(grandpa.shared_voter_state)
    /\ grandpa' = [grandpa EXCEPT !.rpc_read = Some(grandpa.shared_voter_state)]
    /\ UNCHANGED <<entry, config, args, pc, result, built, log, tasks, network,
                   chain, probe, process, cli, dht>>

\* A justification supplied by a peer arrives on the import queue's
\* justification-import channel and finalizes the next height.
import_justification ==
    /\ network.state = "started"
    /\ Running("basic-block-import-worker")
    /\ network.import_queue[1].justification_import # None
    /\ chain.finalized < MaxHeight
    /\ chain' = [chain EXCEPT !.finalized = @ + 1]
    /\ UNCHANGED <<entry, config, args, pc, result, built, log, tasks, network,
                   grandpa, probe, process, cli, dht>>

\* ------------------------------------------------------------ specification
Next ==
    \/ chain_ops_keystore
    \/ chain_ops_return
    \/ partial_registry
    \/ partial_parts
    \/ partial_pool
    \/ partial_grandpa_import
    \/ partial_babe_import
    \/ partial_import_queue
    \/ partial_rpc
    \/ full_network
    \/ full_offchain
    \/ full_spawn_tasks
    \/ full_babe
    \/ full_discovery
    \/ full_grandpa_config
    \/ full_grandpa
    \/ full_start_network
    \/ full_return
    \/ light_registry
    \/ light_parts
    \/ light_grandpa_import
    \/ light_babe_import
    \/ light_import_queue
    \/ light_network
    \/ light_offchain
    \/ light_spawn_tasks
    \/ light_start_network
    \/ light_return
    \/ network_inbound

Spec == Init /\ [][Next]_vars

\* The pause rule alone: every (pause block, delay) pair new_full can be
\* given, evaluated at every finalized height.
ProbePauses ==
    {None} \cup {Some(<<b, d>>) : b \in 0..MaxProbeBlock, d \in 0..MaxProbeDelay}

InitPause ==
    /\ entry = "new_full"
    /\ config \in {c \in Configurations :
                      /\ c.role.kind = "Full"
                      /\ ~c.offchain_worker_enabled
                      /\ ~c.disable_grandpa
                      /\ ~c.force_authoring
                      /\ c.prometheus_config = "None"}
    /\ args = NoArgs
    /\ pc = "probe"
    /\ result = "none"
    /\ built = NoBuilt
    /\ log = <<>>
    /\ tasks = <<>>
    /\ network = NoNetwork
    /\ grandpa = NoGrandpa
    /\ chain = NoChain
    /\ process = NoProcess
    /\ cli = NoCli
    /\ dht = NoDht
    /\ \E gp \in ProbePauses, h \in 0..MaxProbeHeight :
          probe = [pause |-> gp, height |-> h, decision |-> "none"]

NextPause == probe_decide

SpecPause == InitPause /\ [][NextPause]_vars

\* Bootstrap followed by the running voter: every role, both values of
\* disable_grandpa and of collating_for, every pause pair.
InitVoter ==
    \E e \in Entries :
        \E c \in {x \in Configurations :
                      /\ ~x.offchain_worker_enabled
                      /\ ~x.force_authoring
                      /\ x.prometheus_config = "None"},
           a \in (IF e = "new_full"
                  THEN {x \in FullArgs : ~x.test /\ x.authority_discovery_enabled}
                  ELSE {NoArgs}) :
            InitWith(e, c, a)

NextVoter ==
    \/ Next
    \/ voter_round
    \/ import_justification
    \/ rpc_round_state

SpecVoter == InitVoter /\ [][NextVoter]_vars

\* Bootstrap followed by the ends of tasks of the running node: every role,
\* both values of the offchain, discovery and finality flags.
InitTasks ==
    \E e \in Entries :
        \E c \in {x \in Configurations :
                      /\ ~x.force_authoring
                      /\ x.prometheus_config = "None"},
           a \in (IF e = "new_full"
                  THEN {x \in FullArgs :
                          /\ ~x.test
                          /\ x.collating_for = "None"
                          /\ x.grandpa_pause = None}
                  ELSE {NoArgs}) :
            InitWith(e, c, a)

NextTasks ==
    \/ Next
    \/ task_ends

SpecTasks == InitTasks /\ [][NextTasks]_vars

\* The bootstrap under the assumption that every construction step it
\* calls returns: a step that can be taken is eventually taken.
InitLive ==
    \E e \in Entries :
        \E c \in {x \in Configurations : ~x.force_authoring},
           a \in (IF e = "new_full"
                  THEN {x \in FullArgs :
                          /\ x.collating_for = "None"
                          /\ x.grandpa_pause = None}
                  ELSE {NoArgs}) :
            InitWith(e, c, a)

SpecLive == InitLive /\ [][Next]_vars /\ WF_vars(Next)

\* The node started from the command line: every subcommand, role and
\* pause list.
InitCli ==
    /\ entry = "run"
    /\ config \in {x \in Configurations :
                      /\ ~x.offchain_worker_enabled
                      /\ ~x.force_authoring
                      /\ x.prometheus_config = "Some"}
    /\ args = NoArgs
    /\ pc = "run"
    /\ result = "none"
    /\ built = NoBuilt
    /\ log = <<>>
    /\ tasks = <<>>
    /\ network = NoNetwork
    /\ grandpa = NoGrandpa
    /\ chain = NoChain
    /\ probe = NoProbe
    /\ process = NoProcess
    /\ dht = NoDht
    /\ cli \in CommandLines

NextCli ==
    \/ run
    \/ Next

SpecCli == InitCli /\ [][NextCli]_vars

\* Bootstrap followed by the network's event stream.
InitDht ==
    \E e \in Entries :
        \E c \in {x \in Configurations :
                      /\ x.role.kind \in {"Authority", "Sentry", "Full"}
                      /\ x.role.sentry_nodes = <<>>
                      /\ ~x.offchain_worker_enabled
                      /\ ~x.disable_grandpa
                      /\ ~x.force_authoring
                      /\ x.prometheus_config = "None"},
           a \in (IF e = "new_full"
                  THEN {x \in FullArgs :
                          /\ ~x.test
                          /\ x.collating_for = "None"
                          /\ x.grandpa_pause = None}
                  ELSE {NoArgs}) :
            InitWith(e, c, a)

NextDht ==
    \/ Next
    \/ network_event
    \/ network_event_stream_ends

SpecDht == InitDht /\ [][NextDht]_vars

\* Bootstrap followed by block imports through the composed pipeline.
InitImport ==
    \E e \in Entries :
        \E c \in {x \in Configurations :
                      /\ x.role.kind \in {"Authority", "Full", "Light"}
                      /\ x.role.sentry_nodes = <<>>
                      /\ ~x.offchain_worker_enabled
                      /\ ~x.disable_grandpa
                      /\ ~x.force_authoring
                      /\ x.prometheus_config = "None"},
           a \in (IF e = "new_full"
                  THEN {x \in FullArgs :
                          /\ ~x.test
                          /\ x.authority_discovery_enabled
                          /\ x.collating_for = "None"
                          /\ x.grandpa_pause = None}
                  ELSE {NoArgs}) :
            InitWith(e, c, a)

NextImport ==
    \/ Next
    \/ import_queue_block
    \/ production_block

SpecImport == InitImport /\ [][NextImport]_vars


\* ------------------------------------------------------------------ claims
FullOk == entry = "new_full" /\ result = "Ok"

\* C1: a successful full-node bootstrap has spawned the block-production
\* task (babe) if and only if role.is_authority(), for every role and every
\* value of the other inputs; no other entry point ever spawns it.
C1_ProductionIffAuthority ==
    /\ Spawned("babe") => entry = "new_full" /\ is_authority(role)
    /\ FullOk => (Spawned("babe") <=> is_authority(role))

\* An authority started with a collation target finished its bootstrap and
\* runs the production task.
C1_Witness ==
    /\ FullOk
    /\ is_authority(role)
    /\ is_collator
    /\ Spawned("babe")

\* C3: a successful full-node bootstrap has spawned the authority-discovery
\* task if and only if authority_discovery_enabled is true and the role is
\* Authority or Sentry; it is never spawned otherwise.
C3_DiscoveryIffEnabledValidator ==
    LET wanted == args.authority_discovery_enabled /\ role.kind \in {"Authority", "Sentry"}
    IN  /\ Spawned("authority-discovery-worker") => entry = "new_full" /\ wanted
        /\ FullOk => (Spawned("authority-discovery-worker") <=> wanted)

\* A sentry with discovery enabled finished its bootstrap with the task.
C3_Witness ==
    /\ FullOk
    /\ role.kind = "Sentry"
    /\ args.authority_discovery_enabled
    /\ Spawned("authority-discovery-worker")

\* C2: in a full-node bootstrap the network start trigger is invoked only
\* after the RPC server, the production task (when the role spawns one) and
\* the finality voter (when finality is enabled) have been spawned; it is the
\* last event of the bootstrap, and no inbound block reaches the import queue
\* before those tasks exist.
C2_StartNetworkLast ==
    LET essentialsExist ==
            /\ Spawned("rpc-server")
            /\ is_authority(role) => Spawned("babe")
            /\ enable_grandpa => Spawned("grandpa-voter")
    IN  entry = "new_full" =>
          /\ network.state = "started" => essentialsExist
          /\ network.inbound > 0 => essentialsExist
          /\ \A i \in 1..Len(log) : log[i] = "start_network" => i = Len(log)

\* A validator with finality enabled received an inbound block.
C2_Witness ==
    /\ entry = "new_full"
    /\ is_authority(role)
    /\ enable_grandpa
    /\ network.inbound > 0
    /\ Spawned("babe")
    /\ Spawned("grandpa-voter")

\* C4: a light node, whatever its Configuration, never spawns a production
\* task or a finality-voting task and installs no voting rule; the only
\* finality import it builds is the passive light observer import.
C4_LightNeverProducesNorVotes ==
    entry = "new_light" =>
        /\ ~Spawned("babe")
        /\ ~Spawned("grandpa-voter")
        /\ grandpa.voting_rule = None
        /\ grandpa.link_half = "none"
        /\ built.grandpa_block_import # None =>
              built.grandpa_block_import[1] = <<"grandpa_light", "client">>
        /\ network.import_queue # None =>
              network.import_queue[1].block_import = <<"babe", "grandpa_light", "client">>

\* A light node configured with the Authority role finished its bootstrap.
C4_Witness ==
    /\ entry = "new_light"
    /\ result = "Ok"
    /\ is_authority(role)
    /\ network.state = "started"
    /\ network.import_queue # None

\* C9: a successful full-node bootstrap took exactly one finality branch: the
\* voter task is spawned, as an essential task owning the finality link, if
\* and only if disable_grandpa is not set, whatever the role; otherwise the
\* disabled-finality setup ran and no voter task exists.
C9_ExactlyOneFinalityBranch ==
    /\ ~(Spawned("grandpa-voter") /\ grandpa.disabled_setup)
    /\ Spawned("grandpa-voter") =>
          /\ TaskNamed("grandpa-voter").essential
          /\ TaskNamed("grandpa-voter").link
          /\ grandpa.link_half = "voter"
          /\ network.state # "none"
    /\ FullOk =>
          /\ Spawned("grandpa-voter") <=> ~config.disable_grandpa
          /\ grandpa.disabled_setup <=> config.disable_grandpa

\* A node with the non-validator role Full runs the voter.
C9_Witness ==
    /\ FullOk
    /\ role.kind = "Full"
    /\ ~config.disable_grandpa
    /\ Spawned("grandpa-voter")

\* C10: after a successful full-node bootstrap, key material is reachable
\* from the production task or the voter task if and only if
\* role.is_authority(); a non-authority node gives neither task a keystore.
KeystoreReachable ==
    \E i \in 1..Len(tasks) :
        tasks[i].name \in {"babe", "grandpa-voter"} /\ tasks[i].keystore

C10_KeystoreIffAuthority ==
    /\ KeystoreReachable => is_authority(role)
    /\ FullOk => (KeystoreReachable <=> is_authority(role))

\* A non-authority node runs the voter, which holds no keystore.
C10_Witness ==
    /\ FullOk
    /\ ~is_authority(role)
    /\ Spawned("grandpa-voter")
    /\ ~TaskNamed("grandpa-voter").keystore

\* C5: for every (pause block, delay, finalized height) triple the rule
\* built from grandpa_pause = Some((block, delay)) decides Pause exactly when
\* block <= height < block + delay and Vote otherwise; with (100, 10) it
\* decides Vote at 99, Pause at 100 and 109, Vote at 110.
C5_PauseExactlyInWindow ==
    (probe.decision # "none" /\ probe.pause # None) =>
        LET block == probe.pause[1][1]
            delay == probe.pause[1][2]
            h == probe.height
        IN  /\ probe.decision \in {"Vote", "Pause"}
            /\ probe.decision = "Pause" <=> (block <= h /\ h < block + delay)
            /\ (block = 100 /\ delay = 10 /\ h \in {99, 110}) => probe.decision = "Vote"
            /\ (block = 100 /\ delay = 10 /\ h \in {100, 109}) => probe.decision = "Pause"

\* The rule for (100, 10) was evaluated at the last paused height.
C5_Witness ==
    /\ probe.pause = Some(<<100, 10>>)
    /\ probe.height = 109
    /\ probe.decision = "Pause"

PauseRuleInstalled ==
    /\ grandpa.voting_rule # None
    /\ grandpa.voting_rule[1] # <<>>

\* C6 as stated: after a successful full-node bootstrap a pause rule is
\* installed exactly when grandpa_pause is Some((block, delay)).
C6_Original ==
    FullOk => (PauseRuleInstalled <=> args.grandpa_pause # None)

\* C6 (amended): with grandpa_pause = None no pause rule is installed and
\* every decision of the voter is Vote; after a successful full-node
\* bootstrap a pause rule is installed exactly when grandpa_pause is
\* Some((block, delay)) and disable_grandpa is not set; the voting rule is
\* installed at most once, and it is in place whenever the voter task exists,
\* so no decision is taken without it.
C6_PauseRuleInstalledOnceWithVoter ==
    /\ grandpa.rule_installs <= 1
    /\ grandpa.voting_rule # None <=> Spawned("grandpa-voter")
    /\ grandpa.last_decision # None => grandpa.voting_rule # None
    /\ PauseRuleInstalled =>
          /\ args.grandpa_pause # None
          /\ grandpa.voting_rule[1] =
                <<PauseAfterBlockFor(args.grandpa_pause[1][1], args.grandpa_pause[1][2])>>
    /\ FullOk => (PauseRuleInstalled <=>
                    (args.grandpa_pause # None /\ ~config.disable_grandpa))
    /\ (args.grandpa_pause = None /\ grandpa.last_decision # None) =>
          grandpa.last_decision[1][2] = "Vote"

\* Without a pause the voter decided Vote at a height above 0; the same
\* bootstrap with a pause pair pauses (second disjunct).
C6_Witness ==
    /\ FullOk
    /\ \/ /\ args.grandpa_pause = None
          /\ grandpa.last_decision = Some(<<2, "Vote">>)
       \/ /\ PauseRuleInstalled
          /\ grandpa.last_decision # None
          /\ grandpa.last_decision[1][2] = "Pause"

\* C8 as stated: with disable_grandpa set, the disabled setup runs instead of
\* the voter, the finality link is retained after the bootstrap, and the
\* shared voter state never advances.
C8_Original ==
    (FullOk /\ config.disable_grandpa) =>
        /\ grandpa.disabled_setup
        /\ ~Spawned("grandpa-voter")
        /\ grandpa.link_half \notin {"none", "dropped"}
        /\ grandpa.shared_voter_state = 0

\* C8 (amended): with disable_grandpa set, the disabled setup runs instead of
\* the voter, no voting rule is installed and the shared voter state never
\* advances; the finality link is not handed to the disabled setup and is
\* dropped when new_full returns: what stays for RPC queries are the shared
\* authority set and the justification stream the RPC builder captured.
C8_DisabledFinalityDropsLink ==
    config.disable_grandpa =>
        /\ ~Spawned("grandpa-voter")
        /\ grandpa.voting_rule = None
        /\ grandpa.link_half # "voter"
        /\ grandpa.shared_voter_state = 0
        /\ grandpa.last_decision = None
        /\ FullOk =>
              /\ grandpa.disabled_setup
              /\ grandpa.link_half = "dropped"
              /\ {"shared_authority_set", "justification_stream",
                  "shared_voter_state"} \subseteq built.rpc_captures

\* Finality is disabled, and the finalized height advanced through a
\* justification a peer supplied.
C8_Witness ==
    /\ FullOk
    /\ config.disable_grandpa
    /\ grandpa.disabled_setup
    /\ chain.finalized > 0

\* C7: an import attempt of a block whose production seal is invalid, with
\* or without an attached justification and on either path, is rejected by
\* the seal stage before any other stage is entered: storage, the
\* authority-set state and the finalized height are unchanged by it.
C7_InvalidSealRejectedFirst ==
    [][(chain'.tick # chain.tick /\ ~chain'.last[1].block.seal_valid) =>
          /\ chain'.last[1].outcome = "rejected"
          /\ chain'.last[1].visited = <<"babe">>
          /\ chain'.storage = chain.storage
          /\ chain'.authority_set = chain.authority_set
          /\ chain'.finalized = chain.finalized]_vars

\* On a full node holding an imported block, an invalid-seal block carrying
\* a justification was offered by the import queue and rejected.
C7_Witness ==
    /\ entry = "new_full"
    /\ chain.last # None
    /\ chain.last[1].path = "import_queue"
    /\ ~chain.last[1].block.seal_valid
    /\ chain.last[1].block.justification
    /\ chain.last[1].outcome = "rejected"
    /\ chain.storage # {}
    /\ chain.last[1].block.id \notin chain.storage
    /\ chain.last[1].block.id \notin chain.authority_set

\* The import queue the node runs with: still held by the bootstrap, or moved
\* into the network.
QueueInUse ==
    IF built.import_queue # None THEN built.import_queue
    ELSE network.import_queue

\* C11: the composed block import is constructed at most once per node; the
\* import queue and the production task hold that same instance with the
\* same stage chain, and a block that entered storage went through exactly
\* that chain.
C11_ComposedImportIsShared ==
    /\ built.block_import_built <= 1
    /\ built.block_import_inst = built.block_import_built
    /\ QueueInUse # None =>
          /\ QueueInUse[1].inst = built.block_import_inst
          /\ built.block_import_built = 1
    /\ Spawned("babe") =>
          /\ QueueInUse # None
          /\ TaskNamed("babe").block_import_inst = QueueInUse[1].inst
          /\ TaskNamed("babe").block_import = QueueInUse[1].block_import
    /\ (chain.last # None /\ chain.last[1].outcome = "imported") =>
          /\ QueueInUse # None
          /\ chain.last[1].visited = QueueInUse[1].block_import
    /\ chain.storage # {} => chain.last # None

\* An authority imported a block it authored while its network was running.
C11_Witness ==
    /\ FullOk
    /\ Spawned("babe")
    /\ network.state = "started"
    /\ chain.last # None
    /\ chain.last[1].path = "production"
    /\ chain.last[1].outcome = "imported"
    /\ chain.last[1].block.id \in chain.storage

\* C12: once a full-node bootstrap has returned an error, the entry point is
\* over (no further step of any kind follows), no spawned task is running,
\* and the network start trigger was never invoked; this holds for a failure
\* of the partial-components build, the network build and the task spawn (and
\* of every later fallible step).
C12_ErrInv ==
    (entry = "new_full" /\ result = "Err") =>
        /\ pc = "done"
        /\ built.task_manager \in {"none", "dropped"}
        /\ \A i \in 1..Len(tasks) : ~TaskRunning(tasks[i])
        /\ network.state # "started"
        /\ network.inbound = 0
        /\ \A i \in 1..Len(log) : log[i] # "start_network"

C12_FailureAbortsBootstrap ==
    /\ []C12_ErrInv
    /\ [][~(entry = "new_full" /\ result = "Err")]_vars

\* The task spawn failed after the network was built and the offchain
\* workers were spawned.
C12_Witness ==
    /\ entry = "new_full"
    /\ result = "Err"
    /\ network.state = "built"
    /\ Spawned("offchain-worker")
    /\ ~Spawned("rpc-server")

EssentialNames == {"babe", "grandpa-voter", "rpc-server"}

\* C13: on a started node, the end of the production task, the voter or the
\* RPC server has made the process exit, after which nothing runs; while
\* only other tasks (offchain workers, authority discovery, whatever ended
\* them) have ended, the process lives and every task that has not ended,
\* and the network, keep running.  A task that ended is never spawned or
\* started again.
C13_EndInv ==
    /\ process.exited <=> (process.ended \cap EssentialNames # {})
    /\ process.exited => \A i \in 1..Len(tasks) : ~TaskRunning(tasks[i])
    /\ (process.ended # {} /\ ~process.exited) =>
          /\ network.state = "started"
          /\ \A i \in 1..Len(tasks) :
                tasks[i].name \notin process.ended => TaskRunning(tasks[i])
          /\ network.inbound < MaxInbound => ENABLED network_inbound

C13_NoRetry ==
    /\ process.ended \subseteq process.ended'
    /\ process.exited => process.exited'
    /\ process.ended # {} => tasks' = tasks

C13_EssentialEndIsFatal ==
    /\ []C13_EndInv
    /\ [][C13_NoRetry]_vars

\* Authority discovery ended first and the node went on; then the production
\* task ended and the process exited.
C13_Witness ==
    /\ FullOk
    /\ "authority-discovery-worker" \in process.ended
    /\ "babe" \in process.ended
    /\ process.why = "failed"
    /\ Spawned("grandpa-voter")
    /\ "grandpa-voter" \notin process.ended
    /\ process.exited

\* C14 as stated: a light node's network has a finality-proof request
\* builder and no finality-proof provider.
C14_Original ==
    (entry = "new_light" /\ network.state # "none") =>
        /\ network.finality_proof_request_builder
        /\ ~network.finality_proof_provider

\* C14: a light node's network is built with the on-demand handle, a
\* finality-proof request builder and a finality-proof provider, so it can
\* request finality proofs and is also equipped to serve them; a full node's
\* network has the provider and no request builder.
C14_LightNetworkRequestsAndProvides ==
    /\ (entry = "new_light" /\ network.state # "none") =>
          /\ network.on_demand
          /\ network.finality_proof_request_builder
          /\ network.finality_proof_provider
          /\ "finality_proof_provider" \in built.handles
          /\ "finality_proof_request_builder" \in built.handles
    /\ (entry = "new_full" /\ network.state # "none") =>
          /\ ~network.on_demand
          /\ ~network.finality_proof_request_builder
          /\ network.finality_proof_provider
    /\ entry = "new_chain_ops" => network.state = "none"

\* A light node finished its bootstrap and its started network holds both.
C14_Witness ==
    /\ entry = "new_light"
    /\ result = "Ok"
    /\ network.state = "started"
    /\ network.finality_proof_request_builder
    /\ network.finality_proof_provider

\* The bootstrap phase of a full node, read off what has been built.
Phase ==
    IF result = "Err" THEN "Error"
    ELSE IF network.state = "started" THEN "NetworkStarted"
    ELSE IF Spawned("grandpa-voter") \/ grandpa.disabled_setup THEN "TasksSpawned"
    ELSE IF network.state = "built" THEN "NetworkBuilt"
    ELSE IF "rpc_extensions_builder" \in built.handles THEN "PartialBuilt"
    ELSE "Init"

PhaseFollows ==
    {<<"Init", "PartialBuilt">>, <<"PartialBuilt", "NetworkBuilt">>,
     <<"NetworkBuilt", "TasksSpawned">>, <<"TasksSpawned", "NetworkStarted">>}

\* C15: a full-node bootstrap changes phase only to the next phase of
\* Init, PartialBuilt, NetworkBuilt, TasksSpawned, NetworkStarted, or to the
\* error outcome; no phase is skipped or entered again, the error outcome
\* is never left, NetworkStarted is never left (not even for the error
\* outcome), and a successful bootstrap ends in NetworkStarted.
C15_PhaseStep ==
    entry = "new_full" =>
        /\ \/ Phase' = Phase
           \/ <<Phase, Phase'>> \in PhaseFollows
           \/ Phase' = "Error" /\ Phase # "NetworkStarted"
        /\ result' = "Ok" => Phase' = "NetworkStarted"

C15_PhasesInOrder == [][C15_PhaseStep]_vars

\* A full node with disabled finality went through every phase.
C15_Witness ==
    /\ FullOk
    /\ Phase = "NetworkStarted"
    /\ grandpa.disabled_setup
    /\ Spawned("rpc-server")

\* The place of each spawn of new_full in the order the claim gives.
SpawnRank(e) ==
    CASE e = "offchain-worker" -> 1
      [] e = "rpc-server" -> 2
      [] e = "babe" -> 3
      [] e = "authority-discovery-worker" -> 4
      [] e \in {"grandpa-voter", "setup_disabled_grandpa"} -> 5
      [] OTHER -> 0

\* The spawns a successful full-node bootstrap performs, in that order.
ExpectedSpawns ==
    (IF config.offchain_worker_enabled THEN <<"offchain-worker">> ELSE <<>>)
    \o <<"rpc-server">>
    \o (IF is_authority(role) THEN <<"babe">> ELSE <<>>)
    \o (IF args.authority_discovery_enabled /\ role.kind \in {"Authority", "Sentry"}
        THEN <<"authority-discovery-worker">> ELSE <<>>)
    \o <<IF config.disable_grandpa THEN "setup_disabled_grandpa" ELSE "grandpa-voter">>

\* C16: in a full-node bootstrap the offchain workers, the RPC server, the
\* production task, the authority-discovery task and the finality voter (or
\* the disabled-finality setup) are spawned in that relative order, each at
\* most once; the RPC server is spawned only after build_network returned
\* the network handle; a successful bootstrap has performed exactly the
\* spawns its inputs call for.
C16_SpawnOrder ==
    entry = "new_full" =>
        /\ \A i, j \in 1..Len(log) :
              (i < j /\ SpawnRank(log[i]) > 0 /\ SpawnRank(log[j]) > 0)
                  => SpawnRank(log[i]) < SpawnRank(log[j])
        /\ \A i \in 1..Len(log) :
              log[i] = "rpc-server" =>
                  /\ \E k \in 1..(i - 1) : log[k] = "build_network"
                  /\ network.state # "none"
        /\ \A i, j \in 1..Len(tasks) :
              (i < j /\ SpawnRank(tasks[i].name) > 0 /\ SpawnRank(tasks[j].name) > 0)
                  => SpawnRank(tasks[i].name) < SpawnRank(tasks[j].name)
        /\ result = "Ok" =>
              SelectSeq(log, LAMBDA e : SpawnRank(e) > 0) = ExpectedSpawns

\* An authority with offchain workers, discovery and finality enabled has
\* spawned all five.
C16_Witness ==
    /\ FullOk
    /\ Spawned("offchain-worker")
    /\ Spawned("rpc-server")
    /\ Spawned("babe")
    /\ Spawned("authority-discovery-worker")
    /\ Spawned("grandpa-voter")

\* new_partial has just returned Ok(PartialComponents) to its caller.
PartialReturned ==
    /\ entry \in {"new_full", "new_chain_ops"}
    /\ pc \in {FullOrder[1], "chain_ops_return"}
    /\ "rpc_extensions_builder" \in built.handles
    /\ network.state = "none"

ServiceTasks ==
    {"offchain-worker", "rpc-server", "babe", "authority-discovery-worker",
     "grandpa-voter"}

\* C17 as stated: when new_partial returns, no task of any kind has been
\* spawned and the network has neither been built nor started.
C17_Original ==
    (pc \in {FullOrder[1], "chain_ops_return"}) =>
        /\ tasks = <<>>
        /\ network.state = "none"

\* C17: when new_partial returns, the network has neither been built nor
\* started, and no service task (production, voter, discovery, offchain
\* worker, RPC server) has been spawned; the tasks registered with its task
\* manager are exactly the background workers of the transaction pool and of
\* the import queue, both non-essential.
C17_PartialSpawnsOnlyWorkers ==
    (pc \in {FullOrder[1], "chain_ops_return"}) =>
        /\ network.state = "none"
        /\ network.import_queue = None
        /\ built.import_queue # None
        /\ \A i \in 1..Len(log) : log[i] \notin {"build_network", "start_network"}
        /\ \A n \in ServiceTasks : ~Spawned(n)
        /\ grandpa.rule_installs = 0 /\ ~grandpa.disabled_setup
        /\ tasks = <<PoolTask, ImportQueueTask>>
        /\ \A i \in 1..Len(tasks) : ~tasks[i].essential

\* new_partial returned to new_full with the two workers registered.
C17_Witness ==
    /\ PartialReturned
    /\ entry = "new_full"
    /\ Spawned("txpool-background")
    /\ Spawned("basic-block-import-worker")
    /\ Running("basic-block-import-worker")

\* Every occurrence of event b in the log has an occurrence of a before it.
LoggedBefore(a, b) ==
    \A j \in 1..Len(log) :
        log[j] = b => \E i \in 1..(j - 1) : log[i] = a

\* C18: in new_partial the finality-justification import is constructed
\* before the production-seal import, which wraps it; the import queue is
\* constructed after both, from the composed production-seal import, with
\* the finality import as its justification-import channel and without a
\* finality-proof import channel.
C18_PartialImportOrder ==
    entry \in {"new_full", "new_chain_ops"} =>
        /\ LoggedBefore("grandpa_block_import", "babe_block_import")
        /\ LoggedBefore("babe_block_import", "import_queue")
        /\ built.block_import # None =>
              /\ built.grandpa_block_import = Some(GrandpaBlockImport(ClientImport))
              /\ Head(built.block_import[1]) = "babe"
              /\ Tail(built.block_import[1]) = built.grandpa_block_import[1]
        /\ QueueInUse # None =>
              /\ built.block_import # None
              /\ QueueInUse[1].block_import = built.block_import[1]
              /\ QueueInUse[1].justification_import = built.grandpa_block_import
              /\ QueueInUse[1].finality_proof_import = None

\* The chain-operations entry point returned the queue new_partial built.
C18_Witness ==
    /\ entry = "new_chain_ops"
    /\ result = "Ok"
    /\ built.import_queue # None
    /\ built.import_queue[1].justification_import # None
    /\ built.import_queue[1].block_import = <<"babe", "grandpa", "client">>

\* One attempt on the current chain state through a stage chain.
AttemptNow(target, block) ==
    AttemptImport(target, block,
        [storage |-> chain.storage,
         authority_set |-> chain.authority_set,
         visited |-> <<>>,
         outcome |-> "none"])

\* C19: on a node that has both, the production task and the import queue
\* import through the same stage chain, production-seal stage, then
\* finality-justification stage, then base import; offered on either path
\* in the same chain state, any block visits the same stages and has the
\* same outcome and effect, and every attempt made was accepted exactly when
\* its seal verified, whichever path it took.
C19_SameStagesOnBothPaths ==
    /\ (Spawned("babe") /\ network.import_queue # None) =>
          /\ TaskNamed("babe").block_import = <<"babe", "grandpa", "client">>
          /\ network.import_queue[1].block_import = <<"babe", "grandpa", "client">>
          /\ \A b \in Blocks :
                AttemptNow(TaskNamed("babe").block_import, b)
                    = AttemptNow(network.import_queue[1].block_import, b)
    /\ (entry = "new_full" /\ chain.last # None) =>
          LET a == chain.last[1]
          IN  /\ a.outcome = (IF a.block.seal_valid THEN "imported" ELSE "rejected")
              /\ a.visited = (IF a.block.seal_valid
                              THEN <<"babe", "grandpa", "client">>
                              ELSE <<"babe">>)

\* The production path refused a block whose seal does not verify, on a node
\* whose import queue is running.
C19_Witness ==
    /\ FullOk
    /\ Running("basic-block-import-worker")
    /\ chain.last # None
    /\ chain.last[1].path = "production"
    /\ ~chain.last[1].block.seal_valid
    /\ chain.last[1].outcome = "rejected"

\* C21: the shared voter state is created empty and changes only in a round
\* of the running voter task that casts a vote; no bootstrap step and no
\* other task changes it, the RPC handler only reads it (what it returns is
\* a value the voter wrote), and while no voter task has been spawned it
\* keeps its empty value.
C21_VoterStateInv ==
    /\ ~Spawned("grandpa-voter") => grandpa.shared_voter_state = 0
    /\ grandpa.rpc_read # None =>
          /\ "shared_voter_state" \in built.rpc_captures
          /\ grandpa.rpc_read[1] <= grandpa.shared_voter_state
          /\ grandpa.rpc_read[1] > 0 => Spawned("grandpa-voter")

C21_VoterStateStep ==
    grandpa'.shared_voter_state # grandpa.shared_voter_state =>
        /\ Running("grandpa-voter")
        /\ TaskNamed("grandpa-voter").link
        /\ grandpa'.last_decision = Some(<<chain.finalized, "Vote">>)
        /\ grandpa'.rpc_read = grandpa.rpc_read
        /\ pc' = pc /\ tasks' = tasks

C21_VoterStateSingleWriter ==
    /\ []C21_VoterStateInv
    /\ [][C21_VoterStateStep]_vars

\* The voter voted and an RPC request read the value it wrote.
C21_Witness ==
    /\ FullOk
    /\ Spawned("grandpa-voter")
    /\ grandpa.shared_voter_state > 0
    /\ grandpa.rpc_read = Some(grandpa.shared_voter_state)

\* The spawns a successful light-node bootstrap performs, in that order.
ExpectedLightSpawns ==
    (IF config.offchain_worker_enabled THEN <<"offchain-worker">> ELSE <<>>)
    \o <<"rpc-server">>

\* C22: a light-node bootstrap spawns, of the service tasks, only the
\* offchain workers (under the flag) and then the RPC server, both after the
\* network was built, and invokes the start trigger last; it never spawns the
\* production, discovery or voter task, whatever the role and flags; its
\* import queue has the never-author check, the finality import as
\* finality-proof channel and no justification channel.
C22_LightSequence ==
    entry = "new_light" =>
        /\ \A n \in ServiceTasks :
              Spawned(n) => n \in {"offchain-worker", "rpc-server"}
        /\ \A i, j \in 1..Len(log) :
              (i < j /\ SpawnRank(log[i]) > 0 /\ SpawnRank(log[j]) > 0)
                  => SpawnRank(log[i]) < SpawnRank(log[j])
        /\ \A i \in 1..Len(log) :
              /\ SpawnRank(log[i]) > 0 => LoggedBefore("build_network", log[i])
              /\ log[i] = "start_network" => i = Len(log)
        /\ LoggedBefore("rpc-server", "start_network")
        /\ result = "Ok" =>
              /\ SelectSeq(log, LAMBDA e : SpawnRank(e) > 0) = ExpectedLightSpawns
              /\ log[Len(log)] = "start_network"
              /\ network.state = "started"
        /\ QueueInUse # None =>
              /\ QueueInUse[1].can_author_with = "NeverCanAuthor"
              /\ QueueInUse[1].finality_proof_import
                    = Some(GrandpaLightBlockImport(ClientImport))
              /\ QueueInUse[1].justification_import = None

\* A light node configured with role Authority and offchain workers finished
\* its bootstrap.
C22_Witness ==
    /\ entry = "new_light"
    /\ result = "Ok"
    /\ is_authority(role)
    /\ tasks[Len(tasks)].name = "rpc-server"
    /\ Spawned("offchain-worker")
    /\ network.import_queue[1].can_author_with = "NeverCanAuthor"

\* Whether this call is to rewrite the metrics registry.
RegistryRewriteDue ==
    CASE entry = "new_light" -> config.prometheus_config = "Some"
      [] entry = "new_full" -> ~args.test /\ config.prometheus_config = "Some"
      [] OTHER -> config.prometheus_config = "Some"

Count(seq, e) == Cardinality({i \in 1..Len(seq) : seq[i] = e})

\* C23: in a bootstrap call the only step that changes the Configuration is
\* the registry step, which changes only the registry field, from the given
\* registry to the namespaced one, so at most once; once a full-node call is
\* past that step the registry is the namespaced one exactly when test mode
\* is off and a prometheus configuration is present; a light-node call
\* rewrites exactly when a prometheus configuration is present.  (Inside
\* new_chain_ops the same holds of the new_partial it calls.)
C23_RegistryInv ==
    /\ Count(log, "registry_rewrite") <= 1
    /\ config.registry = "polkadot" <=> Count(log, "registry_rewrite") = 1
    /\ config.registry = "polkadot" => RegistryRewriteDue
    /\ (result # "Err" /\ pc \notin {"partial_registry", "light_registry",
                                      "chain_ops_keystore", "probe"}) =>
          (config.registry = "polkadot" <=> RegistryRewriteDue)
    /\ (entry = "new_full" /\ args.test) => config.registry = "default"

C23_ConfigStep ==
    (config' # config /\ pc # "chain_ops_keystore") =>
        /\ pc \in {"partial_registry", "light_registry"}
        /\ config' = [config EXCEPT !.registry = "polkadot"]
        /\ config.registry = "default"
        /\ RegistryRewriteDue

C23_OnlyRegistryRewritten ==
    /\ []C23_RegistryInv
    /\ [][C23_ConfigStep]_vars

\* A full node outside test mode with a prometheus configuration finished
\* its bootstrap with the namespaced registry.
C23_Witness ==
    /\ FullOk
    /\ ~args.test
    /\ config.prometheus_config = "Some"
    /\ config.registry = "polkadot"
    /\ Count(log, "registry_rewrite") = 1

\* C24: the authority-discovery task of an Authority is built with that
\* role's own sentry list, discovery role Authority and the keystore; that
\* of a Sentry with an empty sentry list, discovery role Sentry and no
\* keystore; the `unreachable!` arm of the derivation is taken in no
\* execution, for every role and flag combination, and no other role gets a
\* discovery task.
C24_DiscoveryRoleDerivation ==
    /\ \A i \in 1..Len(tasks) : tasks[i].discovery_role # "unreachable"
    /\ Spawned("authority-discovery-worker") =>
          LET t == TaskNamed("authority-discovery-worker")
          IN  /\ role.kind \in {"Authority", "Sentry"}
              /\ role.kind = "Authority" =>
                    /\ t.sentries = role.sentry_nodes
                    /\ t.discovery_role = "Authority"
                    /\ t.keystore
              /\ role.kind = "Sentry" =>
                    /\ t.sentries = <<>>
                    /\ t.discovery_role = "Sentry"
                    /\ ~t.keystore
    /\ \A r \in Roles :
          /\ r.kind = "Authority" =>
                DiscoveryRole(r) = [sentries |-> r.sentry_nodes,
                                    discovery_role |-> "Authority",
                                    keystore |-> TRUE]
          /\ r.kind = "Sentry" =>
                DiscoveryRole(r) = [sentries |-> <<>>,
                                    discovery_role |-> "Sentry",
                                    keystore |-> FALSE]

\* An authority with a sentry node runs discovery with that sentry list.
C24_Witness ==
    /\ FullOk
    /\ role.kind = "Authority"
    /\ role.sentry_nodes # <<>>
    /\ Spawned("authority-discovery-worker")
    /\ TaskNamed("authority-discovery-worker").sentries = role.sentry_nodes

\* The DHT payloads of a sequence of events, in order.
RECURSIVE DhtPayloads(_)
DhtPayloads(evs) ==
    IF evs = <<>> THEN <<>>
    ELSE (IF Head(evs).kind = "Dht" THEN <<Head(evs).payload>> ELSE <<>>)
         \o DhtPayloads(Tail(evs))

\* C25: what has reached the authority-discovery worker is exactly the DHT
\* payloads of the events the network has emitted, in the order emitted:
\* no other event gets through, and no DHT event is dropped, duplicated or
\* reordered; the filtered sequence has ended exactly when the underlying
\* stream has; without a discovery task nothing is fed.
C25_DhtSubsequence ==
    /\ dht.fed = DhtPayloads(dht.emitted)
    /\ Len(dht.fed) = Cardinality({i \in 1..Len(dht.emitted) : dht.emitted[i].kind = "Dht"})
    /\ dht.fed_ended <=> dht.stream_ended
    /\ ~Spawned("authority-discovery-worker") => dht = NoDht

\* DHT events arrived between other events, the same payload twice, and then
\* the stream ended.
C25_Witness ==
    /\ Len(dht.emitted) = 3
    /\ dht.emitted[1].kind = "Dht"
    /\ dht.emitted[2].kind = "NotificationsReceived"
    /\ dht.emitted[3] = dht.emitted[1]
    /\ Len(dht.fed) = 2
    /\ dht.fed_ended

\* The call has returned: with an error, or with Ok after the start trigger
\* (new_chain_ops, which builds no network, with Ok).
Returned ==
    /\ pc = "done"
    /\ \/ result = "Err"
       \/ result = "Ok" /\ (entry = "new_chain_ops" \/ network.state = "started")

\* C26: provided every construction step returns, every bootstrap call
\* eventually returns, either with the error outcome or with Ok after the
\* network start trigger; it does not stay in an intermediate phase.
C26_BootstrapTerminates == <>Returned

\* A full-node bootstrap of an authority returned Ok in the NetworkStarted
\* phase.
C26_Witness ==
    /\ Returned
    /\ FullOk
    /\ Phase = "NetworkStarted"
    /\ Spawned("babe")

\* C27: in new_full the network start trigger is invoked at most once;
\* exactly once, as the last step, when the call returns Ok, and not at all
\* when it returns an error, whether the failure came before the RPC server
\* was spawned or after it (production task, voter, disabled-finality
\* setup), when tasks are already spawned.
C27_StartOnceIffOk ==
    entry = "new_full" =>
        /\ Count(log, "start_network") <= 1
        /\ network.state = "started" <=> Count(log, "start_network") = 1
        /\ result = "Ok" =>
              /\ Count(log, "start_network") = 1
              /\ log[Len(log)] = "start_network"
        /\ result = "Err" =>
              /\ Count(log, "start_network") = 0
              /\ network.state # "started"
              /\ network.inbound = 0

\* The voter (or the disabled-finality setup) failed after the RPC server
\* and the production task were spawned: the trigger was not invoked.
C27_Witness ==
    /\ entry = "new_full"
    /\ result = "Err"
    /\ Spawned("rpc-server")
    /\ Spawned("babe")
    /\ network.state = "built"
    /\ Count(log, "start_network") = 0

\* C28: in new_full the keystore put into the voter's configuration, and so
\* the one the voter task holds, is present if and only if
\* role.is_authority() holds and collating_for is None; the production task
\* is spawned, with the keystore, whenever role.is_authority() holds,
\* collating or not; so an authority started with a collation target
\* produces blocks while its voter has no keystore.
C28_VoterKeystoreExcludesCollator ==
    entry = "new_full" =>
        /\ grandpa.config_keystore # "unset" =>
              (grandpa.config_keystore = "Some"
                  <=> (is_authority(role) /\ args.collating_for = "None"))
        /\ Spawned("grandpa-voter") =>
              (TaskNamed("grandpa-voter").keystore
                  <=> (is_authority(role) /\ args.collating_for = "None"))
        /\ Spawned("babe") => TaskNamed("babe").keystore
        /\ result = "Ok" => (Spawned("babe") <=> is_authority(role))
        /\ (result = "Ok" /\ is_authority(role) /\ args.collating_for = "Some") =>
              /\ Spawned("babe")
              /\ grandpa.config_keystore = "None"

\* An authority started with a collation target runs the production task
\* with the keystore and a voter without one.
C28_Witness ==
    /\ FullOk
    /\ is_authority(role)
    /\ args.collating_for = "Some"
    /\ TaskNamed("babe").keystore
    /\ Spawned("grandpa-voter")
    /\ ~TaskNamed("grandpa-voter").keystore

\* C29: started without a subcommand, run calls build_light if and only if
\* the configured role is Light and build_full for every other role, with
\* no collation target (and not in test mode); it calls at most one
\* orchestrator, never both, and the full orchestrator never runs with role
\* Light.
C29_RunDispatchByRole ==
    /\ Len(cli.calls) <= 1
    /\ entry = "run" <=> cli.calls = <<>>
    /\ entry = "new_light" <=> cli.calls = <<"build_light">>
    /\ entry = "new_full" <=> cli.calls = <<"build_full">>
    /\ cli.calls # <<>> =>
          /\ cli.calls[1] \in {"build_light", "build_full"} <=> cli.subcommand = "None"
          /\ cli.calls[1] = "build_light" => role.kind = "Light"
          /\ cli.calls[1] = "build_full" =>
                /\ role.kind # "Light"
                /\ args.collating_for = "None"
                /\ ~args.test
                /\ args.authority_discovery_enabled = cli.authority_discovery_enabled
    /\ (Spawned("babe") \/ Spawned("grandpa-voter")) => role.kind # "Light"

\* An authority started from the command line finished the full bootstrap.
C29_Witness ==
    /\ cli.calls = <<"build_full">>
    /\ FullOk
    /\ role.kind = "Authority"
    /\ cli.authority_discovery_enabled
    /\ Spawned("authority-discovery-worker")

C31_ChainOpsBuildsPartialOnly ==
    /\ (pc # "run" /\ cli.subcommand \in {"CheckBlock", "ExportBlocks", "ExportState",
                                           "ImportBlocks", "Revert"})
          => (entry = "new_chain_ops" \/ (entry = "run" /\ result = "Err"))
    /\ entry = "new_chain_ops" =>
          /\ cli.subcommand \in {"CheckBlock", "ExportBlocks", "ExportState",
                                  "ImportBlocks", "Revert"}
          /\ cli.calls = <<"new_chain_ops">>
          /\ IF pc = "chain_ops_keystore"
             THEN built = NoBuilt /\ log = <<>> /\ tasks = <<>>
             ELSE config.keystore = "InMemory"
          /\ network = NoNetwork
          /\ \A i \in 1..Len(log) :
                log[i] \in {"registry_rewrite", "new_full_parts", "select_chain",
                            "transaction_pool", "grandpa_block_import",
                            "babe_block_import", "import_queue", "rpc_extensions_builder"}
          /\ \A i \in 1..Len(tasks) :
                tasks[i].name \in {"txpool-background", "basic-block-import-worker"}
          /\ \A n \in {"babe", "grandpa-voter", "authority-discovery-worker",
                        "rpc-server", "offchain-worker"} : ~Spawned(n)
          /\ grandpa.voting_rule = None
          /\ grandpa.rule_installs = 0
          /\ grandpa.config_keystore = "unset"
          /\ ~grandpa.disabled_setup
          /\ grandpa.link_half \notin {"new_full", "voter"}
          /\ result = "Ok" =>
                /\ pc = "done"
                /\ built.task_manager = "returned"
                /\ built.import_queue # None
                /\ {"client", "backend"} \subseteq built.handles
                /\ network.import_queue = None
                /\ Len(tasks) = 2
                /\ log[Len(log)] = "rpc_extensions_builder"

\* The revert subcommand got its components back from new_chain_ops.
C31_Witness ==
    /\ cli.subcommand = "Revert"
    /\ cli.calls = <<"new_chain_ops">>
    /\ entry = "new_chain_ops"
    /\ result = "Ok"
    /\ config.keystore = "InMemory"
    /\ built.task_manager = "returned"
    /\ built.import_queue # None
    /\ Spawned("basic-block-import-worker")

====
